---- MODULE Spec2Model ----
(***************************************************************************)
(* Model of apprenticeship_scrapper.py: the seen-set store, the listing    *)
(* extractor, the category loop of the main block, the Discord formatter   *)
(* and the workbook exporter.                                              *)
(*                                                                         *)
(* Text is modelled as a sequence of string tokens, a multi-line message   *)
(* as a sequence of lines (each line a token sequence, <<>> a blank line). *)
(* The main block is cut at the points where the process can be stopped    *)
(* or an exception can leave it: load, fetch+parse, update, open(..,"w"),  *)
(* json.dump+close, one print per role label, workbook export.             *)
(***************************************************************************)
EXTENDS Naturals, Sequences, FiniteSets, TLC

VARIABLES
    run,                  \* number of process starts so far
    pc,                   \* position of the current process in the main block
    cause,                \* exception that ended the run ("none" if none)
    now,                  \* index into Calendar of the latest datetime.now()
    file,                 \* processed_listings.json on disk
    workbook,             \* Apprenticeships.xlsx on disk
    processed_listings,   \* in-memory seen set (main block)
    all_new_listings,     \* accumulator (main block)
    new_apprenticeships,  \* result of the current category's fetch
    cat,                  \* index of the current category
    label,                \* index of the current role label
    discord_message,      \* last formatted message
    emitted,              \* stdout of the current process: printed messages
    exported,             \* calls of create_excel_workbook in this process
    returned,             \* history: per category, what fetch returned
    fetch_failed,         \* history: categories whose fetch failed
    flushed,              \* history: ids written by completed saves of this run
    offered,              \* history: ids posted today on the current page
    response,             \* unit harness: markup handed to the extractor
    role_id               \* unit harness: label handed to the formatter

vars == <<run, pc, cause, now, file, workbook, processed_listings,
          all_new_listings, new_apprenticeships, cat, label, discord_message,
          emitted, exported, returned, fetch_failed, flushed, offered, response,
          role_id>>

(***************************************************************************)
(* Bounds                                                                  *)
(***************************************************************************)
MaxEntries == 2     \* listing entries on one results page
MaxRuns == 2        \* process starts

(***************************************************************************)
(* Generic helpers                                                         *)
(***************************************************************************)
None == <<"None">>

Range(s) == { s[i] : i \in 1..Len(s) }

Last(s) == s[Len(s)]

RECURSIVE Flatten(_)
Flatten(ss) == IF ss = <<>> THEN <<>> ELSE Head(ss) \o Flatten(Tail(ss))

SeqsUpTo(S, n) == UNION { [1..k -> S] : k \in 0..n }

\* the orders in which a set can be listed
Orders(S) == { s \in [1..Cardinality(S) -> S] : Range(s) = S }

\* sub in text (str.__contains__): sub occurs as a contiguous run of text
Contains(text, sub) ==
    \E i \in 0..Len(text) :
        /\ i + Len(sub) <= Len(text)
        /\ \A j \in 1..Len(sub) : text[i + j] = sub[j]

\* text.replace(tok, ''): every occurrence of the token is removed
Replace(text, tok) == SelectSeq(text, LAMBDA t : t # tok)

\* str.strip() of a multi-line text: leading and trailing blank lines go
RECURSIVE StripLeft(_)
StripLeft(ls) ==
    IF ls # <<>> /\ Head(ls) = <<>> THEN StripLeft(Tail(ls)) ELSE ls

RECURSIVE StripRight(_)
StripRight(ls) ==
    IF ls # <<>> /\ Last(ls) = <<>>
    THEN StripRight(SubSeq(ls, 1, Len(ls) - 1)) ELSE ls

Strip(ls) == StripRight(StripLeft(ls))

\* str.lower() on the tokens used here
Lower(t) ==
    CASE t = "Tech" -> "tech"
      [] t = "Engineering" -> "engineering"
      [] t = "Finance" -> "finance"
      [] t = "Law" -> "law"
      [] t = "Apprentice" -> "apprentice"
      [] OTHER -> t

LowerAll(text) == [i \in 1..Len(text) |-> Lower(text[i])]

(***************************************************************************)
(* Configuration (main block)                                              *)
(***************************************************************************)
categories == <<
    [name |-> "digital",     role_id |-> "Tech",        role_ids |-> <<>>],
    [name |-> "engineering", role_id |-> "Engineering", role_ids |-> <<>>],
    [name |-> "finance",     role_id |-> "None",        role_ids |-> <<"Finance", "Law">>] >>

\* data.get("role_ids") or [data["role_id"]]
RoleIds(data) == IF data.role_ids # <<>> THEN data.role_ids ELSE <<data.role_id>>

NumCategories == Len(categories)

AllRoleIds == UNION { Range(RoleIds(categories[c])) : c \in 1..NumCategories }

Origin == "https://www.findapprenticeship.service.gov.uk"

\* the days datetime.now() can fall on, in time order
Calendar == << [day |-> 3, month |-> "March"], [day |-> 4, month |-> "March"] >>

(***************************************************************************)
(* Markup: a results page is a sequence of <li> entries.  An entry holds   *)
(* what the extractor's find() calls return on it ("None" = not found).    *)
(***************************************************************************)
Captions == { None } \cup
            { <<"Posted", ToString(Calendar[i].day), Calendar[i].month>> :
                  i \in 1..Len(Calendar) }

Postings == {
    [title |-> <<"Finance", "Apprentice">>, company |-> <<"Acme">>,
     location |-> <<"Leeds">>, wage_parent |-> <<"Wage", "20000">>,
     closing |-> <<"Closes on ", "31 January">>,
     href |-> <<"apprenticeship", "VAC1">>],
    [title |-> <<"Software", "Apprentice">>, company |-> <<"Tech", "Ltd">>,
     location |-> <<"York">>, wage_parent |-> None,
     closing |-> None,
     href |-> <<"apprenticeship", "VAC2">>] }

\* a third posting, used where the extractor and the formatter are applied
\* on their own
ExtraPostings == {
    [title |-> <<"Law", "Clerk">>, company |-> <<"Lex", "Partners">>,
     location |-> <<"Hull">>, wage_parent |-> <<"Wage", "Competitive">>,
     closing |-> <<"Closes in ", "5 days">>,
     href |-> <<"apprenticeship", "law", "VAC3">>] }

\* an entry without the h2 heading: listing.find('h2', ...) is None
Malformed == {
    [title |-> None, company |-> <<"Acme">>,
     location |-> <<"Leeds">>, wage_parent |-> None,
     closing |-> <<"Closes in ", "5 days">>,
     href |-> <<"apprenticeship", "VAC1">>] }

Entry(p, c) ==
    [date |-> c, title |-> p.title, company |-> p.company,
     location |-> p.location, wage_parent |-> p.wage_parent,
     closing |-> p.closing, href |-> p.href]

WellFormedEntries == { Entry(p, c) : p \in Postings, c \in Captions }

AllEntries ==
    WellFormedEntries \cup
    { Entry(p, c) : p \in Malformed, c \in Captions \ {None} }

UnitEntries ==
    AllEntries \cup { Entry(p, c) : p \in ExtraPostings, c \in Captions \ {None} }

WellFormedPages == SeqsUpTo(WellFormedEntries, MaxEntries)

AllPages == SeqsUpTo(AllEntries, MaxEntries)

UnitPages == SeqsUpTo(UnitEntries, MaxEntries)

Ids == { Last(p.href) : p \in Postings \cup ExtraPostings \cup Malformed }

\* what requests.get + raise_for_status produce: the page, or RequestException
Got(page) == [ok |-> TRUE, text |-> page]

FetchError == [ok |-> FALSE, text |-> <<>>]

\* a call's outcome: the list returned, or the exception that leaves it
Returns(posts) == [raised |-> "none", posts |-> posts]

Raises(exc) == [raised |-> exc, posts |-> <<>>]

(***************************************************************************)
(* Seen-set store                                                          *)
(***************************************************************************)
Absent == [kind |-> "absent", ids |-> <<>>]

\* the file after open(.., "w") and before the dump is complete
Partial == [kind |-> "partial", ids |-> <<>>]

\* json.dump(list(processed_listings)): the set in some order
JsonDump(listing_set) ==
    { [kind |-> "json", ids |-> o] : o \in Orders(listing_set) }

\* load_processed_listings: the set, or the exception that leaves it
load_processed_listings(f) ==
    CASE f.kind = "json" -> [raised |-> "none", value |-> Range(f.ids)]
      [] f.kind = "absent" -> [raised |-> "none", value |-> {}]
      [] OTHER -> [raised |-> "load_processed_listings: JSONDecodeError",
                   value |-> {}]

(***************************************************************************)
(* Listing extractor                                                       *)
(***************************************************************************)
TodayStr(today) == <<"Posted", ToString(today.day), today.month>>

PostedToday(listing, today) ==
    listing.date # None /\ Contains(listing.date, TodayStr(today))

Record(listing) ==
    [id |-> Last(listing.href),
     title |-> listing.title,
     location |-> listing.location,
     company |-> listing.company,
     wage |-> IF listing.wage_parent # None
              THEN Replace(listing.wage_parent, "Wage")
              ELSE <<"Not specified">>,
     closing_date |-> IF listing.closing # None
                      THEN listing.closing ELSE <<"Not specified">>,
     job_url |-> <<Origin>> \o listing.href]

\* the membership test on processed_listings missing
KeepIgnoringSeen(listing, processed, today) ==
    PostedToday(listing, today)

\* the two conditions under which an entry is appended to new_posts
Keep(listing, processed, today) ==
    /\ PostedToday(listing, today)
    /\ Last(listing.href) \notin processed

\* parse_apprenticeships: the new posts, or Raise on an entry posted today
\* whose heading is missing (None.find -> AttributeError)
parse_apprenticeships(html_content, processed, today) ==
    IF \E i \in 1..Len(html_content) :
           PostedToday(html_content[i], today) /\ html_content[i].title = None
    THEN Raises("parse_apprenticeships: AttributeError")
    ELSE LET kept == SelectSeq(html_content,
                               LAMBDA l : Keep(l, processed, today))
         IN Returns([i \in 1..Len(kept) |-> Record(kept[i])])

\* the except clause missing: RequestException leaves the function
fetch_apprenticeships_propagates(got, processed, today) ==
    IF ~got.ok THEN Raises("fetch_apprenticeships: RequestException")
    ELSE parse_apprenticeships(got.text, processed, today)

\* fetch_apprenticeships on what requests.get produced
fetch_apprenticeships(got, processed, today) ==
    IF ~got.ok THEN Returns(<<>>)
    ELSE parse_apprenticeships(got.text, processed, today)

NewIds(apps) == { apps[i].id : i \in 1..Len(apps) }

\* processed_listings = new_ids in place of the update
UpdatedListingsReplace(processed, apps) == NewIds(apps)

\* the update missing
UpdatedListingsNoMerge(processed, apps) == processed

\* processed_listings.update(new_ids)
UpdatedListings(processed, apps) == processed \cup NewIds(apps)

(***************************************************************************)
(* Notification formatter                                                  *)
(***************************************************************************)
HeaderLine(role) == <<"===", role, "===">>

NoNewLine == <<"No new apprenticeships found.">>

ClosesText(app) ==
    Replace(Replace(app.closing_date, "Closes on "), "Closes in ")

\* what one loop iteration appends to postings: five lines, then "\n"
PostingLines(app) == <<
    <<"**">> \o app.title \o <<" in ">> \o app.location \o <<"**">>,
    <<"**Wage:** ">> \o app.wage,
    <<"**Company:** ">> \o app.company,
    <<"**Closes:** ">> \o ClosesText(app),
    <<"**Link:** ">> \o app.job_url,
    <<>> >>

\* the early return for an empty batch missing: "===role===\n" + "" + "\n"
format_without_empty_case(apprenticeships, role) ==
    LET postings ==
            Flatten([i \in 1..Len(apprenticeships) |->
                         PostingLines(apprenticeships[i])])
    IN IF apprenticeships = <<>>
       THEN <<HeaderLine(role), <<>>>>
       ELSE <<HeaderLine(role)>> \o Strip(postings)

\* postings used without .strip()
format_without_strip(apprenticeships, role) ==
    IF apprenticeships = <<>>
    THEN <<HeaderLine(role), NoNewLine>>
    ELSE <<HeaderLine(role)>> \o
         Flatten([i \in 1..Len(apprenticeships) |->
                      PostingLines(apprenticeships[i])])

format_for_discord(apprenticeships, role) ==
    IF apprenticeships = <<>>
    THEN <<HeaderLine(role), NoNewLine>>
    ELSE LET postings ==
                 Flatten([i \in 1..Len(apprenticeships) |->
                              PostingLines(apprenticeships[i])])
         IN <<HeaderLine(role)>> \o Strip(postings)

(***************************************************************************)
(* Tabular exporter                                                        *)
(***************************************************************************)
NoBook == [state |-> "none", sheets |-> <<>>]

\* the file after a wb.save that failed part-way
BrokenBook == [state |-> "broken", sheets |-> <<>>]

SheetHeaders ==
    <<"Title", "Company", "Location", "Wage", "Closing Date", "Job URL">>

\* keys of role_to_category in insertion order
RECURSIVE RoleOrder(_, _)
RoleOrder(roles, acc) ==
    IF roles = <<>> THEN acc
    ELSE RoleOrder(Tail(roles),
                   IF Head(roles) \in Range(acc) THEN acc
                   ELSE Append(acc, Head(roles)))

RoleMatches(role, listing) ==
    \/ Contains(LowerAll(listing.title), <<Lower(role)>>)
    \/ Contains(LowerAll(listing.location), <<Lower(role)>>)
    \/ Contains(LowerAll(listing.company), <<Lower(role)>>)

SheetRow(listing) ==
    <<listing.title, listing.company, listing.location, listing.wage,
      listing.closing_date, listing.job_url>>

create_excel_workbook(all_listings, cats) ==
    LET roles == RoleOrder(Flatten([c \in 1..Len(cats) |-> RoleIds(cats[c])]),
                           <<>>)
        Sheet(role) ==
            LET role_listings ==
                    SelectSeq(all_listings, LAMBDA l : RoleMatches(role, l))
            IN [title |-> role,
                rows |-> <<SheetHeaders>> \o
                         [i \in 1..Len(role_listings) |->
                              SheetRow(role_listings[i])]]
    IN [state |-> "saved", sheets |-> [r \in 1..Len(roles) |-> Sheet(roles[r])]]

(***************************************************************************)
(* Main block                                                              *)
(***************************************************************************)
Running == {"fetch", "update", "save_open", "save_dump", "notify", "export"}

Stopped == {"start", "done", "aborted", "killed"}

UnitVars == <<response, role_id>>

\* ids of the entries of a page that carry today's caption
PostedIds(page, today) ==
    { Last(page[i].href) : i \in { j \in 1..Len(page) : PostedToday(page[j], today) } }

Init ==
    /\ run = 0
    /\ pc = "start"
    /\ cause = "none"
    /\ now = 1
    /\ file = Absent
    /\ workbook = NoBook
    /\ processed_listings = {}
    /\ all_new_listings = <<>>
    /\ new_apprenticeships = <<>>
    /\ cat = 1
    /\ label = 1
    /\ discord_message = <<>>
    /\ emitted = <<>>
    /\ exported = 0
    /\ returned = <<>>
    /\ fetch_failed = {}
    /\ flushed = {}
    /\ offered = {}
    /\ response = <<>>
    /\ role_id = "None"

\* a process starts: processed_listings = load_processed_listings();
\* all_new_listings = []
Load ==
    /\ pc \in Stopped
    /\ run < MaxRuns
    /\ run' = run + 1
    /\ LET r == load_processed_listings(file)
       IN /\ processed_listings' = r.value
          /\ cause' = r.raised
          /\ pc' = IF r.raised = "none" THEN "fetch" ELSE "aborted"
    /\ all_new_listings' = <<>>
    /\ new_apprenticeships' = <<>>
    /\ cat' = 1
    /\ label' = 1
    /\ discord_message' = <<>>
    /\ emitted' = <<>>
    /\ exported' = 0
    /\ returned' = <<>>
    /\ fetch_failed' = {}
    /\ flushed' = {}
    /\ offered' = {}
    /\ UNCHANGED <<now, file, workbook, UnitVars>>

\* the update-and-save block missing
AfterFetchSkipSave(apps) == "notify"

\* the branch taken after all_new_listings.extend(new_apprenticeships)
AfterFetch(apps) == IF apps # <<>> THEN "update" ELSE "notify"

\* new_apprenticeships = fetch_apprenticeships(url, processed_listings);
\* all_new_listings.extend(new_apprenticeships)
Fetch(pages) ==
    /\ pc = "fetch"
    /\ \E got \in {FetchError} \cup { Got(p) : p \in pages },
          t \in now..Len(Calendar) :
        /\ ~got.ok => t = now
        /\ now' = t
        /\ LET res == fetch_apprenticeships(got, processed_listings, Calendar[t])
           IN /\ fetch_failed' = IF ~got.ok THEN fetch_failed \cup {cat}
                                 ELSE fetch_failed
              /\ offered' = PostedIds(got.text, Calendar[t])
              /\ IF res.raised # "none"
                 THEN /\ pc' = "aborted"
                      /\ cause' = res.raised
                      /\ UNCHANGED <<new_apprenticeships, all_new_listings,
                                     returned>>
                 ELSE /\ new_apprenticeships' = res.posts
                      /\ all_new_listings' = all_new_listings \o res.posts
                      /\ returned' = Append(returned, res.posts)
                      /\ pc' = AfterFetch(res.posts)
                      /\ cause' = cause
    /\ UNCHANGED <<run, file, workbook, processed_listings, cat, label,
                   discord_message, emitted, exported, flushed, UnitVars>>

\* new_ids = {...}; processed_listings.update(new_ids)
Update ==
    /\ pc = "update"
    /\ processed_listings' = UpdatedListings(processed_listings, new_apprenticeships)
    /\ pc' = "save_open"
    /\ UNCHANGED <<run, cause, now, file, workbook, all_new_listings,
                   new_apprenticeships, cat, label, discord_message, emitted,
                   exported, returned, fetch_failed, flushed, offered, UnitVars>>

\* save_processed_listings: open(PROCESSED_FILE, "w") truncates the file
SaveOpen ==
    /\ pc = "save_open"
    /\ file' = Partial
    /\ pc' = "save_dump"
    /\ UNCHANGED <<run, cause, now, workbook, processed_listings,
                   all_new_listings, new_apprenticeships, cat, label,
                   discord_message, emitted, exported, returned, fetch_failed,
                   flushed, offered, UnitVars>>

\* save_processed_listings: json.dump and the close of the with block
SaveDump ==
    /\ pc = "save_dump"
    /\ file' \in JsonDump(processed_listings)
    /\ flushed' = Range(file'.ids)
    /\ pc' = "notify"
    /\ UNCHANGED <<run, cause, now, workbook, processed_listings,
                   all_new_listings, new_apprenticeships, cat, label,
                   discord_message, emitted, exported, returned, fetch_failed,
                   offered, UnitVars>>

\* one iteration of: for role_id in role_ids: print(format_for_discord(..))
Notify ==
    /\ pc = "notify"
    /\ LET roles == RoleIds(categories[cat])
           msg == format_for_discord(new_apprenticeships, roles[label])
       IN /\ discord_message' = msg
          /\ emitted' = Append(emitted, msg)
          /\ IF label < Len(roles)
             THEN /\ label' = label + 1
                  /\ UNCHANGED <<pc, cat, offered>>
             ELSE /\ label' = 1
                  /\ offered' = {}
                  /\ IF cat < NumCategories
                     THEN cat' = cat + 1 /\ pc' = "fetch"
                     ELSE cat' = cat /\ pc' = "export"
    /\ UNCHANGED <<run, cause, now, file, workbook, processed_listings,
                   all_new_listings, new_apprenticeships, exported, returned,
                   fetch_failed, flushed, UnitVars>>

\* the guard missing: the workbook is created on every run
ShouldExportAlways(all_listings) == TRUE

\* if all_new_listings:
ShouldExport(all_listings) == all_listings # <<>>

\* if all_new_listings: create_excel_workbook(all_new_listings, categories)
Export ==
    /\ pc = "export"
    /\ IF ShouldExport(all_new_listings)
       THEN /\ workbook' = create_excel_workbook(all_new_listings, categories)
            /\ exported' = exported + 1
       ELSE UNCHANGED <<workbook, exported>>
    /\ pc' = "done"
    /\ UNCHANGED <<run, cause, now, file, processed_listings,
                   all_new_listings, new_apprenticeships, cat, label,
                   discord_message, emitted, returned, fetch_failed, flushed,
                   offered, UnitVars>>

Next ==
    \/ Load
    \/ Fetch(WellFormedPages)
    \/ Update
    \/ SaveOpen
    \/ SaveDump
    \/ Notify
    \/ Export

\* normal operation: fetches may fail, nothing else does
Spec == Init /\ [][Next]_vars

(***************************************************************************)
(* Faults: the process is stopped from outside, a write raises OSError,    *)
(* a page holds an entry the extractor cannot read.                        *)
(***************************************************************************)
\* the process is killed between two steps of the main block
Interrupt ==
    /\ pc \in Running
    /\ pc' = "killed"
    /\ UNCHANGED <<run, cause, now, file, workbook, processed_listings,
                   all_new_listings, new_apprenticeships, cat, label,
                   discord_message, emitted, exported, returned, fetch_failed,
                   flushed, offered, UnitVars>>

\* open(PROCESSED_FILE, "w") raises: the file is as it was
SaveOpenFail ==
    /\ pc = "save_open"
    /\ pc' = "aborted"
    /\ cause' = "save_processed_listings: OSError"
    /\ UNCHANGED <<run, now, file, workbook, processed_listings,
                   all_new_listings, new_apprenticeships, cat, label,
                   discord_message, emitted, exported, returned, fetch_failed,
                   flushed, offered, UnitVars>>

\* json.dump or the close raises: the file stays truncated
SaveDumpFail ==
    /\ pc = "save_dump"
    /\ pc' = "aborted"
    /\ cause' = "save_processed_listings: OSError"
    /\ UNCHANGED <<run, now, file, workbook, processed_listings,
                   all_new_listings, new_apprenticeships, cat, label,
                   discord_message, emitted, exported, returned, fetch_failed,
                   flushed, offered, UnitVars>>

\* wb.save(filename) raises
ExportFail ==
    /\ pc = "export"
    /\ ShouldExport(all_new_listings)
    /\ workbook' \in {workbook, BrokenBook}
    /\ pc' = "aborted"
    /\ cause' = "create_excel_workbook: OSError"
    /\ UNCHANGED <<run, now, file, processed_listings, all_new_listings,
                   new_apprenticeships, cat, label, discord_message, emitted,
                   exported, returned, fetch_failed, flushed, offered, UnitVars>>

NextFault ==
    \/ Load
    \/ Fetch(AllPages)
    \/ Update
    \/ SaveOpen
    \/ SaveDump
    \/ Notify
    \/ Export
    \/ Interrupt
    \/ SaveOpenFail
    \/ SaveDumpFail
    \/ ExportFail

\* operation with faults
SpecFault == Init /\ [][NextFault]_vars

(***************************************************************************)
(* Unit harness: the extractor and the formatter applied to drawn inputs.  *)
(* extract -> format -> merge the ids returned -> extract again            *)
(***************************************************************************)
UnitMainVars == <<run, file, workbook, all_new_listings, cat, label,
                  emitted, exported, fetch_failed, flushed, offered>>

MainVars == <<UnitMainVars, cause>>

InitUnit ==
    /\ run = 0
    /\ pc = "u_extract"
    /\ cause = "none"
    /\ now \in 1..Len(Calendar)
    /\ file = Absent
    /\ workbook = NoBook
    /\ processed_listings \in SUBSET Ids
    /\ all_new_listings = <<>>
    /\ new_apprenticeships = <<>>
    /\ cat = 1
    /\ label = 1
    /\ discord_message = <<>>
    /\ emitted = <<>>
    /\ exported = 0
    /\ returned = <<>>
    /\ fetch_failed = {}
    /\ flushed = {}
    /\ offered = {}
    /\ response \in UnitPages
    /\ role_id \in AllRoleIds

\* new_posts = parse_apprenticeships(html_content, processed_listings)
UExtract ==
    /\ pc = "u_extract"
    /\ LET res == parse_apprenticeships(response, processed_listings, Calendar[now])
       IN /\ new_apprenticeships' = res.posts
          /\ returned' = <<res.posts>>
          /\ cause' = res.raised
          /\ pc' = IF res.raised = "none" THEN "u_format" ELSE "u_raised"
    /\ UNCHANGED <<UnitMainVars, now, processed_listings, discord_message,
                   UnitVars>>

\* discord_message = format_for_discord(new_apprenticeships, role_id)
UFormat ==
    /\ pc = "u_format"
    /\ discord_message' = format_for_discord(new_apprenticeships, role_id)
    /\ pc' = "u_merge"
    /\ UNCHANGED <<MainVars, now, processed_listings, new_apprenticeships,
                   returned, UnitVars>>

\* processed_listings.update(new_ids)
UMerge ==
    /\ pc = "u_merge"
    /\ processed_listings' = UpdatedListings(processed_listings, new_apprenticeships)
    /\ pc' = "u_again"
    /\ UNCHANGED <<MainVars, now, new_apprenticeships, discord_message,
                   returned, UnitVars>>

\* the same markup extracted again, on the same day, against the merged set
UAgain ==
    /\ pc = "u_again"
    /\ LET res == parse_apprenticeships(response, processed_listings, Calendar[now])
       IN /\ new_apprenticeships' = res.posts
          /\ cause' = res.raised
          /\ pc' = IF res.raised = "none" THEN "u_done" ELSE "u_raised"
    /\ UNCHANGED <<UnitMainVars, now, processed_listings, discord_message,
                   returned, UnitVars>>

NextUnit ==
    \/ UExtract
    \/ UFormat
    \/ UMerge
    \/ UAgain

SpecUnit == InitUnit /\ [][NextUnit]_vars

(***************************************************************************)
(* Properties                                                              *)
(***************************************************************************)
\* the role labels in configured category order then label order, and the
\* category each belongs to
LabelSeq == Flatten([c \in 1..NumCategories |-> RoleIds(categories[c])])

LabelCat ==
    Flatten([c \in 1..NumCategories |->
                 [l \in 1..Len(RoleIds(categories[c])) |-> c]])

\* number of role labels of the categories before category c
LabelsBefore(c) == Cardinality({ k \in 1..Len(LabelCat) : LabelCat[k] < c })

FileIds(f) == IF f.kind = "json" THEN Range(f.ids) ELSE {}

C1_Step ==
    /\ (cat \in fetch_failed' /\ pc \in {"fetch", "notify"}) =>
           /\ pc = "fetch" => /\ new_apprenticeships' = <<>>
                              /\ pc' = "notify"
           /\ all_new_listings' = all_new_listings
           /\ processed_listings' = processed_listings
           /\ file' = file
           /\ pc' \in {"notify", "fetch", "export"}
    /\ pc' = "done" => Len(returned') = NumCategories

\* C1: a step of a category whose fetch failed adds no listing, leaves the
\* in-memory seen set and the seen-set file as they were and goes on to the
\* category's notifications and the next category; a run ends only after
\* every category was fetched.
C1_FetchFailureIsolated == [][C1_Step]_vars

C1_Witness ==
    /\ pc = "done"
    /\ 1 \in fetch_failed
    /\ returned[2] # <<>>
    /\ 3 \notin fetch_failed

\* C2: extraction returns no record whose id is in the seen set passed in,
\* and after the returned ids are merged a second extraction of the same
\* markup on the same day returns nothing.
C2_NoSeenIdReturned ==
    /\ pc = "u_format" =>
           \A i \in 1..Len(new_apprenticeships) :
               new_apprenticeships[i].id \notin processed_listings
    /\ pc = "u_done" => new_apprenticeships = <<>>

C2_Witness ==
    /\ pc = "u_done"
    /\ Len(returned[1]) = 2
    /\ returned[1][1].id # returned[1][2].id
    /\ new_apprenticeships = <<>>

\* C3: the in-memory seen set never loses an id, within a run and from one
\* run to the next through the seen-set file.
C3_SeenSetMonotone == [][processed_listings \subseteq processed_listings']_vars

C3_Witness ==
    /\ run = 2
    /\ pc = "done"
    /\ Cardinality(NewIds(all_new_listings)) = 1
    /\ Cardinality(processed_listings) = 2

\* C4: when the process is interrupted, the seen-set file still holds every
\* id written by the saves completed earlier in the run.
C4_FlushedSurvivesInterrupt == pc = "killed" => flushed \subseteq FileIds(file)

\* C5: loading the seen set never fails the caller.
C5_LoadNeverFails == cause # "load_processed_listings: JSONDecodeError"

C6_Block(k) ==
    /\ emitted[k][1] = <<"===", LabelSeq[k], "===">>
    /\ returned[LabelCat[k]] = <<>> =>
           emitted[k] = << <<"===", LabelSeq[k], "===">>,
                           <<"No new apprenticeships found.">> >>
    /\ returned[LabelCat[k]] # <<>> =>
           emitted[k][2] # <<"No new apprenticeships found.">>

\* C6: the blocks printed so far are one per role label, in category order
\* then label order, of the categories processed so far; a category without
\* new records gets the 'No new apprenticeships found.' block; a finished
\* run has printed one block for every label of every category.
C6_OneBlockPerLabel ==
    /\ Len(emitted) <= Len(LabelSeq)
    /\ \A k \in 1..Len(emitted) : C6_Block(k)
    /\ pc \in {"fetch", "update", "save_open", "save_dump"} =>
           Len(emitted) = LabelsBefore(cat)
    /\ pc = "notify" => Len(emitted) = LabelsBefore(cat) + label - 1
    /\ pc \in {"export", "done"} => Len(emitted) = Len(LabelSeq)

C6_Witness ==
    /\ pc = "done"
    /\ 1 \in fetch_failed
    /\ 2 \notin fetch_failed
    /\ returned[2] = <<>>
    /\ returned[3] # <<>>

C7_State ==
    /\ exported <= 1
    /\ pc \in Running => exported = 0
    /\ pc = "done" => (exported = 1 <=> all_new_listings # <<>>)

C7_Step == (exported' = exported /\ run' = run) => workbook' = workbook

\* C7: the exporter is not called before all categories are processed, a
\* finished run has called it once if it found a new record and not at all
\* otherwise, and the workbook file changes only in a call of the exporter.
C7_ExportIffNonEmpty == []C7_State /\ [][C7_Step]_vars

C7_Witness ==
    /\ run = 2
    /\ pc = "done"
    /\ exported = 0
    /\ workbook.state = "saved"

C8_Closes(app) ==
    IF Head(app.closing_date) \in {"Closes on ", "Closes in "}
    THEN Tail(app.closing_date) ELSE app.closing_date

C8_Head(m, app, b) ==
    /\ m[b + 1] = <<"**">> \o app.title \o <<" in ">> \o app.location \o <<"**">>
    /\ m[b + 2] = <<"**Wage:** ">> \o app.wage
    /\ m[b + 3] = <<"**Company:** ">> \o app.company
    /\ m[b + 4] = <<"**Closes:** ">> \o C8_Closes(app)

C8_Formatted == pc = "u_merge" /\ new_apprenticeships # <<>>

\* C8 as stated: header line, then per record exactly the four lines
\* title-in-location, Wage, Company, Closes, blocks separated by one blank
\* line, the message ending in a single newline.
C8_FourLineBlocks ==
    C8_Formatted =>
        LET m == discord_message
            n == Len(new_apprenticeships)
        IN /\ Len(m) = 5 * n
           /\ m[1] = <<"===", role_id, "===">>
           /\ \A k \in 1..n :
                  /\ C8_Head(m, new_apprenticeships[k], 1 + 5 * (k - 1))
                  /\ k < n => m[1 + 5 * k] = <<>>

\* C8 amended: header line, then per record the five lines
\* title-in-location, Wage, Company, Closes, Link, blocks separated by one
\* blank line, the message ending in a single newline.
C8_FiveLineBlocks ==
    C8_Formatted =>
        LET m == discord_message
            n == Len(new_apprenticeships)
        IN /\ Len(m) = 6 * n
           /\ m[1] = <<"===", role_id, "===">>
           /\ \A k \in 1..n :
                  /\ C8_Head(m, new_apprenticeships[k], 1 + 6 * (k - 1))
                  /\ m[6 * k] = <<"**Link:** ">> \o new_apprenticeships[k].job_url
                  /\ k < n => m[1 + 6 * k] = <<>>

C8_Witness ==
    /\ C8_Formatted
    /\ Len(new_apprenticeships) = 2
    /\ new_apprenticeships[1].id # new_apprenticeships[2].id

\* C9: within one run, no id returned for a category was returned for an
\* earlier category.
C9_NoIdReturnedTwice ==
    \A c1, c2 \in 1..Len(returned) :
        c1 < c2 => NewIds(returned[c1]) \cap NewIds(returned[c2]) = {}

C9_Witness ==
    /\ pc = "notify"
    /\ cat = 2
    /\ offered \cap NewIds(returned[1]) # {}
    /\ new_apprenticeships # <<>>

\* C10: the records of every printed block had their ids written to the
\* seen-set file by a completed save before the block was printed, and a
\* run that a failed save ended has printed no block for the current
\* category and has not called the exporter.
C10_PersistBeforeNotify ==
    /\ \A k \in 1..Len(emitted) : NewIds(returned[LabelCat[k]]) \subseteq flushed
    /\ pc = "notify" => NewIds(new_apprenticeships) \subseteq flushed
    /\ cause = "save_processed_listings: OSError" =>
           /\ pc = "aborted"
           /\ Len(emitted) = LabelsBefore(cat)
           /\ exported = 0

C10_Witness ==
    /\ cause = "save_processed_listings: OSError"
    /\ cat = 2
    /\ returned[1] # <<>>
    /\ Len(emitted) = 1

====
